---- MODULE Spec2Model ----
(***************************************************************************)
(* A model of the wexapi client: the nonce hand-off over the unbuffered   *)
(* channel noncePool (client.go), the signed private request and the      *)
(* public request with their two-phase response decoding (trade.go and    *)
(* public.go).                                                             *)
(*                                                                         *)
(* Text.  A Go string is modelled as a TLA+ string.  A string supplied by *)
(* the caller and passed through url.QueryEscape or url.Parse is a        *)
(* sequence of runs: a run is either a string of unreserved bytes or one  *)
(* reserved byte (" ", "&", "=", "/", "%").                                *)
(*                                                                         *)
(* uint32.  TLC's integers are 32-bit signed, so a uint32 is the pair     *)
(* <<hi, lo>> of its 16-bit halves; arithmetic is modulo 2^32.            *)
(***************************************************************************)
EXTENDS Integers, Sequences, FiniteSets, TLC

\* ------------------------------------------------------------------ bounds

\* Goroutines that call into one Client concurrently (SpecConc).
NumCallers == 2

\* Calls started on one Client in one behaviour of Spec.
MaxCalls == 3

\* Calls started on one Client in one behaviour of SpecConc.
MaxConcCalls == 3

\* The length from which a TradeOrders is decoded into no further.
MaxRecords == 2

\* ------------------------------------------------------------------ uint32

Half == 2 ^ 16

U32(hi, lo) == <<hi, lo>>

\* math.MaxUint32
MaxUint32 == U32(Half - 1, Half - 1)

\* uint32(math.MaxUint32) - 1, the value at which nonce() refuses.
NonceLimit == U32(Half - 1, Half - 2)

\* n + 1 on a uint32: wraps to 0 after MaxUint32.
Inc32(n) ==
    IF n[2] + 1 < Half THEN U32(n[1], n[2] + 1)
    ELSE IF n[1] + 1 < Half THEN U32(n[1] + 1, 0)
    ELSE U32(0, 0)

Less32(a, b) == a[1] < b[1] \/ (a[1] = b[1] /\ a[2] < b[2])

Digit(d) ==
    CASE d = 0 -> "0" [] d = 1 -> "1" [] d = 2 -> "2" [] d = 3 -> "3"
      [] d = 4 -> "4" [] d = 5 -> "5" [] d = 6 -> "6" [] d = 7 -> "7"
      [] d = 8 -> "8" [] d = 9 -> "9"

\* Quotient and remainder of a uint32 by 10, by long division on the halves.
DivMod10(n) ==
    LET t == (n[1] % 10) * Half + n[2]
    IN  [q |-> U32(n[1] \div 10, t \div 10), r |-> t % 10]

\* The decimal digits of a uint32, the last one split off by DivMod10 and
\* the others those of the quotient.
FormatBits[n \in (0..Half - 1) \X (0..Half - 1)] ==
    LET d == DivMod10(n)
    IN  IF d.q = U32(0, 0) THEN Digit(d.r) ELSE FormatBits[d.q] \o Digit(d.r)

\* strconv.FormatUint(uint64(n), 10)
FormatUint(n) == FormatBits[n]

\* strconv.Itoa / %d on a small non-negative int.
RECURSIVE Itoa(_)
Itoa(i) == IF i < 10 THEN Digit(i) ELSE Itoa(i \div 10) \o Digit(i % 10)

\* ------------------------------------------------------------------ errors

\* An error is the sequence of its message layers, outermost first
\* (github.com/pkg/errors: Wrap adds a layer); nil is the empty sequence.
Nil == <<>>

\* errors.New(text) / errors.Errorf(...)
NewError(text) == <<text>>

\* errors.Wrap(err, msg): nil stays nil.
Wrap(err, msg) == IF err = Nil THEN Nil ELSE <<msg>> \o err

\* err.Error()
RECURSIVE ErrorText(_)
ErrorText(err) ==
    IF Len(err) = 1 THEN err[1] ELSE err[1] \o ": " \o ErrorText(Tail(err))

ErrNonceOverflow == NewError("max value reached: create new key")

\* -------------------------------------------------------------------- text

\* The bytes of a text: its runs, concatenated.
RECURSIVE Raw(_)
Raw(t) == IF t = <<>> THEN "" ELSE t[1] \o Raw(Tail(t))

\* url.QueryEscape on one run: a reserved byte is escaped, a run of
\* unreserved bytes is kept.
EscapeRun(r) ==
    CASE r = " " -> "+"
      [] r = "&" -> "%26"
      [] r = "=" -> "%3D"
      [] r = "/" -> "%2F"
      [] r = "%" -> "%25"
      [] OTHER -> r

\* url.QueryEscape
RECURSIVE QueryEscape(_)
QueryEscape(t) == IF t = <<>> THEN "" ELSE EscapeRun(t[1]) \o QueryEscape(Tail(t))

\* strings.Join(parts, sep)
RECURSIVE Join(_, _)
Join(parts, sep) ==
    IF parts = <<>> THEN ""
    ELSE IF Len(parts) = 1 THEN parts[1]
    ELSE parts[1] \o sep \o Join(Tail(parts), sep)

\* Two hexadecimal digits, as they may follow "%" in a URL.
HexPairs == {"20", "2F", "7E"}

\* url.Parse accepts the text: every "%" is followed by two hex digits.
ValidURLText(t) ==
    \A i \in 1..Len(t) :
        t[i] = "%" => (i < Len(t) /\ t[i + 1] \in HexPairs)

\* ------------------------------------------------------------- url.Values

\* Every key the client puts in a url.Values, in the byte order
\* sort.Strings gives them.
KeyOrder ==
    << <<"address">>, <<"amount">>, <<"coinName">>, <<"limit">>, <<"method">>,
       <<"nonce">>, <<"order_id">>, <<"pair">>, <<"rate">>, <<"type">> >>

\* param{key, value}
Param(k, v) == [key |-> k, value |-> v]

\* url.Values.Add on a map from keys to the list of their values.
ValuesAdd(data, k, v) ==
    IF k \in DOMAIN data
    THEN [data EXCEPT ![k] = Append(@, v)]
    ELSE [x \in DOMAIN data \cup {k} |-> IF x = k THEN <<v>> ELSE data[x]]

RECURSIVE Reverse(_)
Reverse(seq) == IF seq = <<>> THEN <<>> ELSE Append(Reverse(Tail(seq)), seq[1])

\* Mutant of SortedKeys: the keys in descending order.
SortedKeysDescending(data) == Reverse(SelectSeq(KeyOrder, LAMBDA k : k \in DOMAIN data))

\* The keys of data as url.Values.Encode visits them: sorted.
SortedKeys(data) == SelectSeq(KeyOrder, LAMBDA k : k \in DOMAIN data)

\* key=value for every value of one key, each escaped.
RECURSIVE EncodeKey(_, _)
EncodeKey(k, vals) ==
    IF vals = <<>> THEN <<>>
    ELSE <<QueryEscape(k) \o "=" \o QueryEscape(vals[1])>> \o EncodeKey(k, Tail(vals))

RECURSIVE EncodeKeys(_, _)
EncodeKeys(data, keys) ==
    IF keys = <<>> THEN <<>>
    ELSE EncodeKey(keys[1], data[keys[1]]) \o EncodeKeys(data, Tail(keys))

\* url.Values.Encode: "URL encoded" form, sorted by key.
Encode(data) == Join(EncodeKeys(data, SortedKeys(data)), "&")

\* ---------------------------------------------------------------- decimal

\* decimal.Decimal: value * 10^exp.
Dec(value, exp) == [value |-> value, exp |-> exp]

\* The first k decimal digits of f < 10^k, trailing zeros trimmed.
RECURSIVE FracDigits(_, _)
FracDigits(f, k) ==
    IF f = 0 THEN ""
    ELSE Digit(f \div (10 ^ (k - 1))) \o FracDigits(f % (10 ^ (k - 1)), k - 1)

\* strconv.Itoa, and %d
RECURSIVE FormatInt(_)
FormatInt(i) == IF i < 0 THEN "-" \o FormatInt(0 - i) ELSE Itoa(i)

\* decimal.Decimal.String(): plain notation, trailing zeros trimmed.
DecString(d) ==
    IF d.exp >= 0 THEN FormatInt(d.value * (10 ^ d.exp))
    ELSE LET abs  == IF d.value < 0 THEN 0 - d.value ELSE d.value
             unit == 10 ^ (0 - d.exp)
             frac == FracDigits(abs % unit, 0 - d.exp)
             num  == Itoa(abs \div unit) \o (IF frac = "" THEN "" ELSE "." \o frac)
         IN  IF d.value < 0 THEN "-" \o num ELSE num

\* --------------------------------------------------------------- responses

\* http.StatusOK
StatusOK == 200

\* A JSON token of the envelope's success field, as a text; Absent when the
\* object has no such field.
Absent == <<"absent">>

Quote == "\""

\* The tokens the tolerant boolean accepts, and some it does not.
BoolTokens ==
    { <<"0">>, <<"1">>, <<"true">>, <<"false">>,
      <<Quote, "0", Quote>>, <<Quote, "1", Quote>>,
      <<Quote, "true", Quote>>, <<Quote, "false", Quote>> }

BadBoolTokens == { <<"2">>, <<"null">>, <<Quote, "yes", Quote>> }

\* Mutant of TrimQuotes: the token is taken with its quotes.
TrimQuotesNot(t) == t

\* strings.Trim(s, "\""): the quotes at both ends removed.
RECURSIVE TrimLeftQuotes(_)
TrimLeftQuotes(t) ==
    IF t # <<>> /\ t[1] = Quote THEN TrimLeftQuotes(Tail(t)) ELSE t

RECURSIVE TrimRightQuotes(_)
TrimRightQuotes(t) ==
    IF t # <<>> /\ t[Len(t)] = Quote
    THEN TrimRightQuotes(SubSeq(t, 1, Len(t) - 1)) ELSE t

TrimQuotes(t) == TrimRightQuotes(TrimLeftQuotes(t))

\* convertibleBool.UnmarshalJSON: 1 and true are true, 0 and false are
\* false, quoted or not; any other token is an error.
ConvertibleBool(token) ==
    LET s == Raw(TrimQuotes(token))
    IN  IF s \in {"1", "true"} THEN [err |-> Nil, value |-> TRUE]
        ELSE IF s \in {"0", "false"} THEN [err |-> Nil, value |-> FALSE]
        ELSE [err |-> NewError("convertible bool: invalid token " \o s),
              value |-> FALSE]

\* The error field of a JSON object: absent, null, a string, or a value of
\* another JSON type.
NoErrorField == [kind |-> "absent", text |-> ""]
NullErrorField == [kind |-> "null", text |-> ""]
StringErrorField(text) == [kind |-> "string", text |-> text]
NumberErrorField == [kind |-> "number", text |-> ""]

\* A response body as encoding/json sees it.  kind: malformed (not JSON at
\* all, such as "/"), null, array, or object.  Of an object: the success
\* token, the error field, the return field (absent, null, fits: it decodes
\* into the caller's result, misfit: it does not), whether the object as
\* a whole decodes into the caller's result (fits or misfit), and the pair
\* names among its keys.
Body(kind, success, error, ret, whole) ==
    [kind |-> kind, success |-> success, error |-> error, ret |-> ret,
     whole |-> whole, keys |-> {}]

\* The object with a member for each of the pair names keys.
WithKeys(body, keys) == [body EXCEPT !.keys = keys]

MalformedBody == Body("malformed", Absent, NoErrorField, "absent", "misfit")
NullBody == Body("null", Absent, NoErrorField, "absent", "fits")
ArrayBody == Body("array", Absent, NoErrorField, "absent", "misfit")

\* What cli.httpClient.Do and ioutil.ReadAll give: a transport error, or a
\* response with a status, a body and whether reading the body fails.
TransportError(cause) ==
    [kind |-> "error", cause |-> cause, status |-> 0, readErr |-> FALSE,
     body |-> NullBody]

HTTPResponse(status, readErr, body) ==
    [kind |-> "http", cause |-> "", status |-> status, readErr |-> readErr,
     body |-> body]

NoResponse ==
    [kind |-> "none", cause |-> "", status |-> 0, readErr |-> FALSE,
     body |-> NullBody]

\* baseResponse{}
ZeroBaseResponse == [Success |-> FALSE, Error |-> NoErrorField, Return |-> "absent"]

\* json.Unmarshal(body, &br) with br a baseResponse.
UnmarshalBase(body) ==
    CASE body.kind = "malformed" ->
           [err |-> NewError("invalid character '/' looking for beginning of value"),
            br |-> ZeroBaseResponse]
      [] body.kind = "null" -> [err |-> Nil, br |-> ZeroBaseResponse]
      [] body.kind = "array" ->
           [err |-> NewError("json: cannot unmarshal array into Go value of type wexapi.baseResponse"),
            br |-> ZeroBaseResponse]
      [] body.kind = "object" ->
           LET b == IF body.success = Absent
                    THEN [err |-> Nil, value |-> FALSE]
                    ELSE ConvertibleBool(body.success)
           IN  IF b.err # Nil THEN [err |-> b.err, br |-> ZeroBaseResponse]
               ELSE IF body.error.kind = "number"
               THEN [err |-> NewError("json: cannot unmarshal number into Go struct field baseResponse.error of type string"),
                     br |-> ZeroBaseResponse]
               ELSE [err |-> Nil,
                     br |-> [Success |-> b.value,
                             Error |-> IF body.error.kind = "string"
                                       THEN body.error ELSE NoErrorField,
                             Return |-> body.ret]]

\* json.Unmarshal(br.Return, result): an absent return field leaves
\* br.Return empty, which is no JSON; null decodes and changes nothing.
UnmarshalReturn(ret) ==
    CASE ret = "absent" -> [err |-> NewError("unexpected end of JSON input"), result |-> "zero"]
      [] ret = "null" -> [err |-> Nil, result |-> "zero"]
      [] ret = "fits" -> [err |-> Nil, result |-> "decoded"]
      [] ret = "misfit" ->
           [err |-> NewError("json: cannot unmarshal return into Go value"), result |-> "zero"]

\* json.Unmarshal(body, result) for a body that parsed as the envelope.
UnmarshalWhole(body) ==
    IF body.kind = "null" THEN [err |-> Nil, result |-> "zero"]
    ELSE IF body.whole = "fits" THEN [err |-> Nil, result |-> "decoded"]
    ELSE [err |-> NewError("json: cannot unmarshal body into Go value"), result |-> "zero"]

\* ---------------------------------------------------------------- requests

publicAPIEndpoint == "https://wex.nz/api/3"

tradeAPIEndpoint == "https://wex.nz/tapi"

\* cli.key and cli.secret, as given to NewClient.
ClientKey == "key"

ClientSecret == "secret"

\* A text of one run, or of none for the empty string.
Text(s) == IF s = "" THEN <<>> ELSE <<s>>

\* hex.EncodeToString of the HMAC-SHA512 of bytes under secret: a value
\* that determines the key and the bytes it was computed over.
HmacSha512Hex(secret, bytes) == <<"hmac-sha512", secret, bytes>>

NoSign == <<>>

\* An *http.Request as the transport receives it.
Request(method, url, query, body, key, sign, contentType) ==
    [method |-> method, url |-> url, query |-> query, body |-> body,
     Key |-> key, Sign |-> sign, ContentType |-> contentType]

\* bytes.NewBufferString(s): the data and whether it has been read out.
NewBufferString(s) == [data |-> s, drained |-> FALSE]

\* buf.Bytes(): the unread bytes; reads nothing.
BufferBytes(buf) == IF buf.drained THEN "" ELSE buf.data

\* The parameters each private operation passes to tradeRequest, in the
\* order it passes them.
TradeParams(op, args) ==
    CASE op = "getInfo" -> <<>>
      [] op = "Trade" ->
           << Param(<<"pair">>, args[1]), Param(<<"type">>, args[2]),
              Param(<<"rate">>, Text(DecString(args[3]))),
              Param(<<"amount">>, Text(DecString(args[4]))) >>
      [] op = "ActiveOrders" -> << Param(<<"pair">>, args[1]) >>
      [] op = "OrderInfo" -> << Param(<<"order_id">>, Text(FormatInt(args[1]))) >>
      [] op = "CancelOrder" -> << Param(<<"order_id">>, Text(FormatInt(args[1]))) >>
      [] op = "WithdrawCoin" ->
           << Param(<<"coinName">>, args[1]), Param(<<"address">>, args[2]),
              Param(<<"amount">>, Text(DecString(args[3]))) >>

\* data.Add(param.key, param.value) for every param, in order.
RECURSIVE AddParams(_, _)
AddParams(data, params) ==
    IF params = <<>> THEN data
    ELSE AddParams(ValuesAdd(data, params[1].key, params[1].value), Tail(params))

\* url.Values{"method": {method}, "nonce": {nonce}} and the params added.
TradeValues(method, nonce, params) ==
    AddParams([k \in {<<"method">>, <<"nonce">>} |->
                  IF k = <<"method">> THEN <<Text(method)>> ELSE <<Text(nonce)>>],
              params)

\* Mutant of SignWrite: the signature is fed by reading the buffer out, as
\* io.Copy(sign, buf) would, which leaves nothing for the transport.
SignWriteDraining(buf) == [bytes |-> buf.data, buf |-> [buf EXCEPT !.drained = TRUE]]

\* sign.Write(buf.Bytes()): the bytes the signature is computed over, and
\* the buffer afterwards (Bytes reads nothing out of it).
SignWrite(buf) == [bytes |-> BufferBytes(buf), buf |-> buf]

\* The transport reading the request body, which http.NewRequest made of
\* the buffer itself: what is unread in it when Do is called.
BodyRead(buf) == BufferBytes(buf)

\* The request tradeRequest hands to cli.httpClient.Do.
TradeRequest(method, nonce, params) ==
    LET buf    == NewBufferString(Encode(TradeValues(method, nonce, params)))
        signed == SignWrite(buf)
    IN  Request("POST", tradeAPIEndpoint, "", BodyRead(signed.buf), ClientKey,
                HmacSha512Hex(ClientSecret, signed.bytes),
                "application/x-www-form-urlencoded")

\* The path each public operation asks for, and its query parameter.
PublicMethod(op, args) ==
    CASE op = "info" -> <<"info">>
      [] op = "ticker" -> <<"ticker", "/">> \o args[1]
      [] op = "depth" -> <<"depth", "/">> \o args[1]
      [] op = "trades" -> <<"trades", "/">> \o args[1]

PublicParam(op, args) ==
    CASE op \in {"info", "ticker"} -> <<>>
      [] op \in {"depth", "trades"} -> << Param(<<"limit">>, Text(FormatInt(args[2]))) >>

\* http.NewRequest("GET", endpoint/method, nil): fails when the URL does
\* not parse.
PublicBuildError(op, args) ==
    IF ValidURLText(PublicMethod(op, args)) THEN Nil
    ELSE NewError("parse " \o publicAPIEndpoint \o "/" \o Raw(PublicMethod(op, args))
                  \o ": invalid URL escape")

\* The request publicRequest hands to cli.httpClient.Do.
PublicRequest(op, args) ==
    Request("GET", publicAPIEndpoint \o "/" \o Raw(PublicMethod(op, args)),
            Encode(AddParams(<<>>, PublicParam(op, args))), "", "", NoSign, "")

\* ---------------------------------------------------------------- decoding

\* Mutant of StatusRejected: the status is not looked at.
StatusNeverRejected(resp) == FALSE

\* resp.StatusCode != http.StatusOK
StatusRejected(resp) == resp.status # StatusOK

\* Mutant of IsApplicationError: the envelope's error is not looked at.
NeverApplicationError(br) == FALSE

\* !br.Success && br.Error != nil
IsApplicationError(br) == ~br.Success /\ br.Error.kind = "string"

\* Mutant of BaseWrap: the envelope phase reports with the payload's tag.
BaseWrapAsResult == "unmarshal to result"

BaseWrap == "unmarshal to base response"

ResultWrap == "unmarshal to result"

Failed(err) == [err |-> err, result |-> "zero"]

\* Market{}, OrderBook{} or a nil []Trade; and the record an object holds
\* under the key k.
ZeroRecord == [of |-> ""]

Record(k) == [of |-> k]

\* Mutant of MapIndex: an entry of the map, whatever its key.
MapIndexAny(keys, pair) ==
    IF keys = {} THEN ZeroRecord ELSE Record(CHOOSE k \in keys : TRUE)

\* tickerResponse[pair] for a map with the keys keys: the entry, or the
\* zero value of a key the map lacks.
MapIndex(keys, pair) == IF pair \in keys THEN Record(pair) ELSE ZeroRecord

\* What follows cli.httpClient.Do in publicRequest and in tradeRequest;
\* private: the result is decoded from br.Return, else from the whole body.
Decode(resp, private) ==
    IF resp.kind = "error" THEN Failed(Wrap(NewError(resp.cause), "do request"))
    ELSE IF StatusRejected(resp)
    THEN Failed(NewError("server respond with status code " \o FormatInt(resp.status)))
    ELSE IF resp.readErr THEN Failed(Wrap(NewError("unexpected EOF"), "read response body"))
    ELSE LET base == UnmarshalBase(resp.body)
         IN  IF base.err # Nil THEN Failed(Wrap(base.err, BaseWrap))
             ELSE IF IsApplicationError(base.br)
             THEN Failed(NewError("server respond with error: " \o base.br.Error.text))
             ELSE LET r == IF private THEN UnmarshalReturn(base.br.Return)
                           ELSE UnmarshalWhole(resp.body)
                  IN  [err |-> Wrap(r.err, ResultWrap), result |-> r.result]

\* ---------------------------------------------------------------- adapters

orderParamsCount == 2

orderRateIndex == 0

orderAmountIndex == 1

\* decimal.Zero, and the decimal.Decimal{} a new struct holds.
DecZero == Dec(0, 0)

\* d1.Mul(d2): the coefficients multiplied, the exponents added.
Mul(d1, d2) == Dec(d1.value * d2.value, d1.exp + d2.exp)

\* d1.Equal(d2): the two brought to the smaller exponent and compared.
DecEqual(d1, d2) ==
    LET m == IF d1.exp < d2.exp THEN d1.exp ELSE d2.exp
    IN  d1.value * (10 ^ (d1.exp - m)) = d2.value * (10 ^ (d2.exp - m))

\* The decimal digits, as the bytes of a text.
Digits == { Digit(d) : d \in 0..9 }

DigitValue(ch) == CHOOSE d \in 0..9 : Digit(d) = ch

\* The number a run of digit bytes spells.
RECURSIVE DigitsValue(_)
DigitsValue(t) ==
    IF t = <<>> THEN 0
    ELSE DigitsValue(SubSeq(t, 1, Len(t) - 1)) * 10 + DigitValue(t[Len(t)])

AllDigits(t) == t # <<>> /\ \A i \in 1..Len(t) : t[i] \in Digits

\* decimal.NewFromString for a text of bytes without an exponent part: the
\* digits around the point make the coefficient, the digits after it the
\* exponent.
NewFromString(t) ==
    LET neg    == t # <<>> /\ t[1] = "-"
        body   == IF neg THEN Tail(t) ELSE t
        points == { i \in 1..Len(body) : body[i] = "." }
        at     == IF points = {} THEN Len(body) + 1 ELSE CHOOSE i \in points : TRUE
        digits == SubSeq(body, 1, at - 1) \o SubSeq(body, at + 1, Len(body))
    IN  IF Cardinality(points) > 1
        THEN [err |-> NewError("can't convert " \o Raw(t) \o " to decimal: too many .s"),
              d |-> DecZero]
        ELSE IF ~AllDigits(digits)
        THEN [err |-> NewError("can't convert " \o Raw(t) \o " to decimal"), d |-> DecZero]
        ELSE [err |-> Nil,
              d |-> Dec((IF neg THEN 0 - 1 ELSE 1) * DigitsValue(digits),
                        0 - (Len(body) - at + (IF points = {} THEN 1 ELSE 0)))]

\* Decimal.UnmarshalJSON: the token without its quotes, if it has them, then
\* NewFromString.
UnmarshalDecimal(token) ==
    LET quoted == Len(token) >= 2 /\ token[1] = Quote /\ token[Len(token)] = Quote
        str    == IF quoted THEN SubSeq(token, 2, Len(token) - 1) ELSE token
        r      == NewFromString(str)
    IN  IF r.err = Nil THEN r
        ELSE [err |-> NewError("Error decoding string '" \o Raw(str) \o "': "
                               \o ErrorText(r.err)),
              d |-> DecZero]

\* JSON handed to Order.UnmarshalJSON: an array of number tokens, or a value
\* that is no array.
OrderJSON(kind, elems) == [kind |-> kind, elems |-> elems]

\* json.Unmarshal(data, &orderParams) with orderParams a
\* [orderParamsCount]decimal.Decimal: the elements the array has room for
\* are decoded in order, the others are skipped, the missing ones are zero.
UnmarshalOrderParams(data) ==
    LET elem(i) == IF i <= Len(data.elems) THEN UnmarshalDecimal(data.elems[i])
                   ELSE [err |-> Nil, d |-> DecZero]
        bad     == { i \in 1..orderParamsCount : elem(i).err # Nil }
        zeros   == [i \in 1..orderParamsCount |-> DecZero]
    IN  IF data.kind # "array"
        THEN [err |-> NewError("json: cannot unmarshal " \o data.kind
                               \o " into Go value of type [2]decimal.Decimal"),
              orderParams |-> zeros]
        ELSE IF bad # {}
        THEN [err |-> elem(CHOOSE i \in bad : \A j \in bad : i <= j).err,
              orderParams |-> zeros]
        ELSE [err |-> Nil, orderParams |-> [i \in 1..orderParamsCount |-> elem(i).d]]

\* Order{}
ZeroOrder == [Rate |-> DecZero, Amount |-> DecZero, Total |-> DecZero]

\* order.CalculateTotal()
CalculateTotal(o) ==
    IF DecEqual(o.Amount, DecZero) THEN o
    ELSE [o EXCEPT !.Total = Mul(o.Rate, o.Amount)]

\* order.UnmarshalJSON(data)
OrderUnmarshalJSON(o, data) ==
    LET u == UnmarshalOrderParams(data)
    IN  IF u.err # Nil THEN [err |-> u.err, order |-> o]
        ELSE [err |-> Nil,
              order |-> CalculateTotal([o EXCEPT
                            !.Rate = u.orderParams[orderRateIndex + 1],
                            !.Amount = u.orderParams[orderAmountIndex + 1]])]

\* Mutant of ParseUint: a key that is no number counts as 0.
ParseUintLenient(key) ==
    [err |-> Nil, value |-> IF AllDigits(key) THEN DigitsValue(key) ELSE 0]

\* strconv.ParseUint(idString, 10, 64) for a key of a few bytes.
ParseUint(key) ==
    IF AllDigits(key) THEN [err |-> Nil, value |-> DigitsValue(key)]
    ELSE [err |-> NewError("strconv.ParseUint: parsing \"" \o Raw(key)
                           \o "\": invalid syntax"),
          value |-> 0]

\* The member of a JSON object that has no "id" field.
NoID == <<>>

\* A value nested under a key of the ID-keyed object: null, a string, or an
\* object with a pair field and, possibly, a field named id.
Nested(kind, id, pair) == [kind |-> kind, id |-> id, pair |-> pair]

\* TradeOrder{ID: id}
NewTradeOrder(id) == [ID |-> id, Pair |-> ""]

\* json.Unmarshal(data, &trade) with trade a TradeOrder.  ID has no json
\* tag, so the field of the object whose name is ID in any case is decoded
\* into it.
UnmarshalTradeOrder(data, trade) ==
    CASE data.kind = "null" -> [err |-> Nil, trade |-> trade]
      [] data.kind = "object" ->
           [err |-> Nil,
            trade |-> [ID |-> IF data.id = NoID THEN trade.ID ELSE data.id[1],
                       Pair |-> data.pair]]
      [] OTHER ->
           [err |-> NewError("json: cannot unmarshal " \o data.kind
                             \o " into Go value of type wexapi.TradeOrder"),
            trade |-> trade]

\* JSON handed to TradeOrders.UnmarshalJSON: of an object, its members.
IDRawJSON(kind, members) == [kind |-> kind, members |-> members]

Member(key, value) == [key |-> key, value |-> value]

\* The orders in which range may visit the members of a map.
RangeOrders(members) ==
    { v \in [1..Cardinality(members) -> members] :
        \A i, j \in 1..Cardinality(members) : i # j => v[i] # v[j] }

\* The loop of TradeOrders.UnmarshalJSON over idRaw, visited in the order
\* visit.
RECURSIVE RangeIDRaw(_, _)
RangeIDRaw(to, visit) ==
    IF visit = <<>> THEN [err |-> Nil, to |-> to]
    ELSE LET idString == visit[1].key
             p        == ParseUint(idString)
             u        == UnmarshalTradeOrder(visit[1].value, NewTradeOrder(p.value))
         IN  IF p.err # Nil
             THEN [err |-> Wrap(p.err, "parse id " \o Raw(idString)), to |-> to]
             ELSE IF u.err # Nil
             THEN [err |-> Wrap(u.err, "unmarshal trade order " \o Raw(idString)),
                   to |-> to]
             ELSE RangeIDRaw(Append(to, u.trade), Tail(visit))

\* to.UnmarshalJSON(data)
TradeOrdersUnmarshalJSON(to, data, visit) ==
    IF data.kind \notin {"object", "null"}
    THEN [err |-> Wrap(NewError("json: cannot unmarshal " \o data.kind
                                \o " into Go value of type map[string]json.RawMessage"),
                       "unmarshal to id raw"),
          to |-> to]
    ELSE RangeIDRaw(to, visit)

\* The operations that decode a map keyed by pair and return one entry.
PairOps == {"ticker", "depth", "trades"}

\* The keys the map passed to publicRequest may hold afterwards: those of
\* the body when it decoded, those decoded before the failure when it did
\* not, none when the call failed before.
MapsAfter(resp, d) ==
    IF d.err = Nil THEN { IF d.result = "decoded" THEN resp.body.keys ELSE {} }
    ELSE IF d.err[1] = ResultWrap THEN SUBSET resp.body.keys
    ELSE { {} }

\* What Ticker, Depth and Trades return beside the error.
Returns(op, args, resp, d) ==
    IF op \in PairOps THEN { MapIndex(keys, Raw(args[1])) : keys \in MapsAfter(resp, d) }
    ELSE { ZeroRecord }

\* The JSON a private response holds under each order id of its return.
OrderEntry == Nested("object", NoID, "btc_usd")

\* What OrderInfo returns beside the error, for a map decoded with the keys
\* keys: tradeOrders[orderIDString].  trade, the copy whose ID is set, is
\* not what is returned.
OrderInfoReturn(keys, orderID) ==
    LET orderIDString == FormatInt(orderID)
        tradeOrdersAt(k) ==
            IF k \in keys THEN UnmarshalTradeOrder(OrderEntry, NewTradeOrder(0)).trade
            ELSE NewTradeOrder(0)
        trade == [tradeOrdersAt(orderIDString) EXCEPT !.ID = orderID]
    IN  tradeOrdersAt(orderIDString)

\* What the private operations return beside the error.
TradeReturns(op, args, resp, d) ==
    IF op = "OrderInfo"
    THEN { OrderInfoReturn(keys, args[1]) : keys \in MapsAfter(resp, d) }
    ELSE { ZeroRecord }

\* ------------------------------------------------------------------- state

VARIABLES
    senders,   \* the goroutines blocked in cli.noncePool <- v: the v of each
    call,      \* per calling goroutine: the call it is in
    log,       \* every return of nonce(), in order (history)
    wire,      \* per request handed to the HTTP transport, in order: who sent
               \* it, its method and its nonce field (history)
    started,   \* calls started so far
    order,     \* an Order a user of the package decodes into
    tradeOrders, \* a TradeOrders a user of the package decodes into
    bools,     \* the convertibleBool fields: baseResponse.Success, PairInfo.Hidden
    last       \* the last call on order, tradeOrders or bools: the method,
               \* its input, the value it acted on and its error (history)

client == <<senders, call, log, wire, started>>

adapters == <<order, tradeOrders, bools, last>>

vars == <<senders, call, log, wire, started, order, tradeOrders, bools, last>>

Callers == 1..NumCallers

\* The value NewClient's goroutine offers first: uint32(time.Now().Unix()),
\* or what a Client built in the package is seeded with.
Seeds ==
    { U32(0, 1), U32(20484, 8996), U32(Half - 1, Half - 3), NonceLimit, MaxUint32 }

NoNonce == <<>>

IdleCall ==
    [pc |-> "idle", op |-> "none", args |-> <<>>, nonce |-> NoNonce,
     ret |-> "", rerr |-> Nil, sent |-> <<>>, resp |-> NoResponse,
     err |-> Nil, result |-> "zero", value |-> ZeroRecord]

PrivateOps == {"getInfo", "Trade", "ActiveOrders", "OrderInfo", "CancelOrder", "WithdrawCoin"}

PublicOps == {"info", "ticker", "depth", "trades"}

Invocation(op, args) == [op |-> op, args |-> args]

Pair == <<"btc_usd">>

\* The private calls a caller may make.
PrivateCalls ==
    { Invocation("getInfo", <<>>),
      Invocation("Trade", <<Pair, <<"sell">>, Dec(485, 0), Dec(12345, -3)>>),
      Invocation("Trade", <<Pair, <<"buy">>, Dec(103426, -3), Dec(1, -2)>>),
      Invocation("ActiveOrders", <<Pair>>),
      Invocation("ActiveOrders", <<<<"btc", "&", "usd">>>>),
      Invocation("OrderInfo", <<343152>>),
      Invocation("CancelOrder", <<343152>>),
      Invocation("WithdrawCoin", <<<<"BTC">>, <<"1Abc">>, Dec(9, -3)>>),
      Invocation("WithdrawCoin", <<<<"BTC">>, <<"a", " ", "b">>, Dec(250, -2)>>) }

\* The public calls a caller may make; one names a pair that is no URL.
PublicCalls ==
    { Invocation("info", <<>>),
      Invocation("ticker", <<Pair>>),
      Invocation("ticker", <<<<"btc", "%", "zz">>>>),
      Invocation("depth", <<Pair, 2>>),
      Invocation("trades", <<Pair, 150>>) }

\* cli.nonce() called on its own, as the package's test does.
NonceCalls == { Invocation("nonce", <<>>) }

\* The success tokens, error fields and bodies a server may answer with.
SuccessTokens ==
    { Absent, <<"0">>, <<"1">>, <<"true">>, <<Quote, "false", Quote>>, <<"2">> }

ErrorFields ==
    { NoErrorField, NullErrorField, StringErrorField("Invalid method"), NumberErrorField }

ObjectBodies(rets, wholes) ==
    { Body("object", s, e, r, w) :
        s \in SuccessTokens, e \in ErrorFields, r \in rets, w \in wholes }

Responses(bodies) ==
    { TransportError("dial tcp: connection refused") }
    \cup { HTTPResponse(StatusOK, TRUE, NullBody) }
    \cup { HTTPResponse(st, FALSE, b) : st \in {StatusOK, 500}, b \in bodies }

\* The order ids a return may have among its keys.
OrderKeys == {"343152", "7"}

\* Bodies of the private API whose return is an object keyed by order id.
KeyedReturns ==
    { WithKeys(Body("object", <<"1">>, NoErrorField, r, "misfit"), keys) :
        r \in {"fits", "misfit"}, keys \in (SUBSET OrderKeys) \ {{}} }

PrivateResponses ==
    Responses({MalformedBody, NullBody, ArrayBody} \cup KeyedReturns
              \cup ObjectBodies({"absent", "null", "fits", "misfit"}, {"misfit"}))

\* The pair names a body may have among its keys.
PairKeys == {"btc_usd", "eth_usd"}

\* Bodies of the public API that are objects keyed by pair.
KeyedBodies ==
    { WithKeys(Body("object", Absent, NoErrorField, "absent", w), keys) :
        w \in {"fits", "misfit"}, keys \in (SUBSET PairKeys) \ {{}} }

PublicResponses ==
    Responses({MalformedBody, NullBody, ArrayBody} \cup KeyedBodies
              \cup ObjectBodies({"absent"}, {"fits", "misfit"}))

\* No call on an adapter yet.
NoCall == [op |-> "none", input |-> <<>>, visit |-> <<>>, before |-> <<>>, err |-> Nil]

LastCall(op, input, visit, before, err) ==
    [op |-> op, input |-> input, visit |-> visit, before |-> before, err |-> err]

\* A Client after NewClient, seeded with one of seeds.
InitClient(seeds) ==
    /\ senders \in { <<s>> : s \in seeds }
    /\ call = [c \in Callers |-> IdleCall]
    /\ log = <<>>
    /\ wire = <<>>
    /\ started = 0

\* Order{}, TradeOrders{} and the zero convertibleBool of two new structs.
InitAdapters ==
    /\ order = ZeroOrder
    /\ tradeOrders = <<>>
    /\ bools = [Success |-> FALSE, Hidden |-> FALSE]
    /\ last = NoCall

Init == InitClient(Seeds) /\ InitAdapters

\* ----------------------------------------------------------------- actions

\* A caller starts an operation.  A private operation and nonce() begin by
\* receiving from noncePool; a public operation goes straight to its request.
Call(c, inv, max) ==
    /\ call[c].pc \in {"idle", "done"}
    /\ started < max
    /\ started' = started + 1
    /\ call' = [call EXCEPT ![c] =
                   [IdleCall EXCEPT !.pc = IF inv.op \in PublicOps THEN "send" ELSE "recv",
                                    !.op = inv.op, !.args = inv.args]]
    /\ UNCHANGED <<senders, log, wire, adapters>>

\* Mutant of Remove: the sender stays blocked after the receive.
RemoveNothing(seq, i) == seq

Remove(seq, i) == SubSeq(seq, 1, i - 1) \o SubSeq(seq, i + 1, Len(seq))

\* nonce := <-cli.noncePool: a rendezvous with one blocked sender.
NonceRecv(c) ==
    /\ call[c].pc = "recv"
    /\ \E i \in 1..Len(senders) :
          /\ senders' = Remove(senders, i)
          /\ call' = [call EXCEPT ![c].pc = "got", ![c].nonce = senders[i]]
    /\ UNCHANGED <<log, wire, started, adapters>>

\* nonce == uint32(math.MaxUint32)-1
AtLimit(n) == n = NonceLimit

\* Mutant of OverflowResend: the overflow path advances the counter too.
OverflowResendAdvanced(n) == Inc32(n)

\* What the goroutine spawned on the overflow path sends: nonce.
OverflowResend(n) == n

\* Mutant of NextNonce: the normal path offers the same value again.
NextNonceStale(n) == n

\* What the goroutine spawned on the normal path sends: nonce + 1.
NextNonce(n) == Inc32(n)

\* Mutant of Spawn: no goroutine is started.
SpawnNone(blocked, v) == blocked

\* go func() { cli.noncePool <- v }(): one more goroutine blocked in a send
\* of v.
Spawn(blocked, v) == Append(blocked, v)

\* The rest of nonce(): spawn the goroutine that offers the counter again
\* and return.  tradeRequest puts the returned string into the form and
\* looks at no error.
NonceReturn(c) ==
    /\ call[c].pc = "got"
    /\ LET n    == call[c].nonce
           ret  == IF AtLimit(n) THEN "" ELSE FormatUint(n)
           rerr == IF AtLimit(n) THEN ErrNonceOverflow ELSE Nil
       IN  /\ senders' = Spawn(senders, IF AtLimit(n) THEN OverflowResend(n)
                                        ELSE NextNonce(n))
           /\ log' = Append(log, [c |-> c, n |-> n, ret |-> ret, err |-> rerr])
           /\ call' = [call EXCEPT ![c].ret = ret, ![c].rerr = rerr,
                          ![c].pc = IF call[c].op = "nonce" THEN "done" ELSE "send",
                          ![c].err = IF call[c].op = "nonce" THEN rerr ELSE Nil]
    /\ UNCHANGED <<wire, started, adapters>>

Sent(c, req, nonce) == [c |-> c, method |-> req.method, nonce |-> nonce]

\* Mutant of Do: the request is handed to the transport a second time.
DoWithRetry(sent, req) == Append(Append(sent, req), req)

\* cli.httpClient.Do(req): the call hands the transport one more request.
Do(sent, req) == Append(sent, req)

\* tradeRequest from the form to its return: build, sign, Do, decode.
TradeDo(c, resp) ==
    /\ call[c].pc = "send"
    /\ call[c].op \in PrivateOps
    /\ LET req == TradeRequest(call[c].op, call[c].ret,
                               TradeParams(call[c].op, call[c].args))
           d   == Decode(resp, TRUE)
       IN  /\ wire' = Append(wire, Sent(c, req, call[c].ret))
           /\ \E value \in TradeReturns(call[c].op, call[c].args, resp, d) :
                 call' = [call EXCEPT ![c].pc = "done", ![c].sent = Do(@, req),
                             ![c].resp = resp, ![c].err = d.err,
                             ![c].result = d.result, ![c].value = value]
    /\ UNCHANGED <<senders, log, started, adapters>>

\* publicRequest whose request does not build: no Do.
PublicBuildFail(c) ==
    /\ call[c].pc = "send"
    /\ call[c].op \in PublicOps
    /\ PublicBuildError(call[c].op, call[c].args) # Nil
    /\ call' = [call EXCEPT ![c].pc = "done",
                   ![c].err = Wrap(PublicBuildError(call[c].op, call[c].args),
                                   "request build")]
    /\ UNCHANGED <<senders, log, wire, started, adapters>>

\* publicRequest: build, Do, decode.
PublicDo(c, resp) ==
    /\ call[c].pc = "send"
    /\ call[c].op \in PublicOps
    /\ PublicBuildError(call[c].op, call[c].args) = Nil
    /\ LET req == PublicRequest(call[c].op, call[c].args)
           d   == Decode(resp, FALSE)
       IN  /\ wire' = Append(wire, Sent(c, req, call[c].ret))
           /\ \E value \in Returns(call[c].op, call[c].args, resp, d) :
                 call' = [call EXCEPT ![c].pc = "done", ![c].sent = Do(@, req),
                             ![c].resp = resp, ![c].err = d.err,
                             ![c].result = d.result, ![c].value = value]
    /\ UNCHANGED <<senders, log, started, adapters>>

\* json.Unmarshal(data, &order) on the Order a user holds.
OrderDecode(data) ==
    /\ LET r == OrderUnmarshalJSON(order, data)
       IN  /\ order' = r.order
           /\ last' = LastCall("Order.UnmarshalJSON", data, <<>>, order, r.err)
    /\ UNCHANGED <<tradeOrders, bools, client>>

\* order.CalculateTotal() on the Order a user holds.
OrderCalculateTotal ==
    /\ order' = CalculateTotal(order)
    /\ last' = LastCall("Order.CalculateTotal", <<>>, <<>>, order, Nil)
    /\ UNCHANGED <<tradeOrders, bools, client>>

\* tradeOrders := TradeOrders{}, as ActiveOrders begins.
TradeOrdersNew ==
    /\ tradeOrders' = <<>>
    /\ last' = LastCall("TradeOrders{}", <<>>, <<>>, tradeOrders, Nil)
    /\ UNCHANGED <<order, bools, client>>

\* json.Unmarshal(data, &tradeOrders), range visiting idRaw in the order
\* visit.
TradeOrdersDecode(data, visit) ==
    /\ Len(tradeOrders) < MaxRecords
    /\ LET r == TradeOrdersUnmarshalJSON(tradeOrders, data, visit)
       IN  /\ tradeOrders' = r.to
           /\ last' = LastCall("TradeOrders.UnmarshalJSON", data, visit, tradeOrders, r.err)
    /\ UNCHANGED <<order, bools, client>>

\* A convertibleBool field decodes a token; an error leaves it as it was.
BoolDecode(field, token) ==
    /\ LET r == ConvertibleBool(token)
       IN  /\ bools' = IF r.err = Nil THEN [bools EXCEPT ![field] = r.value] ELSE bools
           /\ last' = LastCall("convertibleBool.UnmarshalJSON", token, <<field>>,
                               bools[field], r.err)
    /\ UNCHANGED <<order, tradeOrders, client>>

\* ---------------------------------------------------------- specifications

\* One goroutine uses the Client: every operation, every response.
Next ==
    \/ \E inv \in PrivateCalls \cup PublicCalls \cup NonceCalls : Call(1, inv, MaxCalls)
    \/ NonceRecv(1)
    \/ NonceReturn(1)
    \/ \E resp \in PrivateResponses : TradeDo(1, resp)
    \/ PublicBuildFail(1)
    \/ \E resp \in PublicResponses : PublicDo(1, resp)

Spec == Init /\ [][Next]_vars

\* The calls and responses of the concurrent specification.
ConcCalls ==
    NonceCalls \cup { Invocation("getInfo", <<>>), Invocation("ticker", <<Pair>>),
                      Invocation("ticker", <<<<"btc", "%", "zz">>>>) }

ConcResponses ==
    { HTTPResponse(StatusOK, FALSE, Body("object", <<"1">>, NoErrorField, "fits", "fits")),
      HTTPResponse(500, FALSE, NullBody) }

\* NumCallers goroutines use the Client concurrently.
NextConc ==
    \E c \in Callers :
        \/ \E inv \in ConcCalls : Call(c, inv, MaxConcCalls)
        \/ NonceRecv(c)
        \/ NonceReturn(c)
        \/ \E resp \in ConcResponses : TradeDo(c, resp)
        \/ PublicBuildFail(c)
        \/ \E resp \in ConcResponses : PublicDo(c, resp)

SpecConc == Init /\ [][NextConc]_vars

\* The scheduling of goroutines: one that can run does run (a caller that
\* holds the counter goes on to spawn and return), and a receiver blocked
\* on noncePool is served when senders keep arriving, the runtime waking
\* the receivers of a channel in the order they blocked.
Fairness ==
    \A c \in Callers : SF_vars(NonceRecv(c)) /\ WF_vars(NonceReturn(c))

\* The calls that take a nonce, and the answer to a private one.
FairCalls == NonceCalls \cup { Invocation("getInfo", <<>>) }

FairResponses ==
    { HTTPResponse(StatusOK, FALSE, Body("object", <<"1">>, NoErrorField, "fits", "fits")) }

NextFair ==
    \E c \in Callers :
        \/ \E inv \in FairCalls : Call(c, inv, MaxConcCalls)
        \/ NonceRecv(c)
        \/ NonceReturn(c)
        \/ \E resp \in FairResponses : TradeDo(c, resp)

\* NumCallers goroutines call nonce() and private operations concurrently,
\* fairly scheduled.
SpecFair == Init /\ [][NextFair]_vars /\ Fairness

\* The rate and amount tokens and the arrays an Order is decoded from.
OrderRates == { <<"2">>, <<"0">>, <<"1", ".", "5">>, <<"1", "0", "3", ".", "4", "2", "6">> }

OrderAmounts == { <<"3">>, <<"0">>, <<"0", ".", "0", "0">>, <<"0", ".", "0", "1">> }

OrderDatas ==
    { OrderJSON("array", <<r, a>>) : r \in OrderRates, a \in OrderAmounts }
    \cup { OrderJSON("array", <<>>), OrderJSON("array", <<<<"2">>>>),
           OrderJSON("array", <<<<"2">>, <<"0", ".", "0", "1">>, <<"7">>>>),
           OrderJSON("array", <<<<"2">>, <<Quote, "0", ".", "5", Quote>>>>),
           OrderJSON("array", <<<<"2">>, <<Quote, "x", Quote>>>>),
           OrderJSON("array", <<<<"1", ".", "2", ".", "3">>, <<"2">>>>),
           OrderJSON("object", <<>>) }

\* A user decodes into an Order and recomputes its total.
NextOrder ==
    \/ \E data \in OrderDatas : OrderDecode(data)
    \/ OrderCalculateTotal

InitOrder == InitClient({U32(0, 1)}) /\ InitAdapters

SpecOrder == InitOrder /\ [][NextOrder]_vars

\* The keys, nested values and objects a TradeOrders is decoded from.
IDKeys == { <<"7">>, <<"0", "7">>, <<"4", "2">>, <<"x", "1">> }

NestedValues ==
    { Nested("object", NoID, "btc_usd"), Nested("object", <<9>>, "btc_usd"),
      Nested("null", NoID, ""), Nested("string", NoID, "") }

IDRawDatas ==
    { IDRawJSON("array", {}), IDRawJSON("null", {}), IDRawJSON("object", {}) }
    \cup { IDRawJSON("object", {Member(k, v)}) : k \in IDKeys, v \in NestedValues }
    \cup { IDRawJSON("object", {Member(k[1], v[1]), Member(k[2], v[2])}) :
             k \in { kk \in IDKeys \X IDKeys : kk[1] # kk[2] },
             v \in NestedValues \X NestedValues }

\* A user decodes into a TradeOrders and starts a new one.
NextTradeOrders ==
    \/ \E data \in IDRawDatas : \E visit \in RangeOrders(data.members) :
          TradeOrdersDecode(data, visit)
    \/ TradeOrdersNew

InitTradeOrders == InitClient({U32(0, 1)}) /\ InitAdapters

SpecTradeOrders == InitTradeOrders /\ [][NextTradeOrders]_vars

\* The tokens a convertibleBool is decoded from.
DecodeTokens ==
    BoolTokens \cup BadBoolTokens
    \cup { <<"TRUE">>, <<"10">>, <<Quote, "2", Quote>>, <<Quote, Quote>>, <<"t">>,
           <<"yes">>, <<"-1">>, <<Quote, "no", Quote>> }

BoolFields == {"Success", "Hidden"}

\* The decoder hands a token to one of the convertibleBool fields.
NextBool ==
    \/ \E token \in DecodeTokens : BoolDecode("Success", token)
    \/ \E token \in DecodeTokens : BoolDecode("Hidden", token)

InitBool == InitClient({U32(0, 1)}) /\ InitAdapters

SpecBool == InitBool /\ [][NextBool]_vars

\* ------------------------------------------------------------------ claims

\* The returns of nonce() that carried a nonce.
Issued == { i \in 1..Len(log) : log[i].err = Nil }

\* The returns of nonce() that failed.
Refused == { i \in 1..Len(log) : log[i].err # Nil }

\* The value of the counter: what a blocked sender offers, or what a caller
\* has received and not yet offered again.
CounterValues ==
    { senders[i] : i \in 1..Len(senders) }
    \cup { call[c].nonce : c \in { d \in Callers : call[d].pc = "got" } }

\* C1: on one Client, whatever uint32 the counter was seeded with, each
\* nonce returned by nonce() is strictly greater than every nonce it
\* returned before.  (Stated as claimed; a seed of 4294967295 refutes it.)
C1_NonceStrictlyIncreasing ==
    \A i, j \in Issued : i < j => Less32(log[i].n, log[j].n)

\* C2: under concurrent callers of nonce() on one Client, no two calls that
\* return successfully return the same nonce.
C2_NoDuplicateNonce ==
    \A i, j \in Issued : i # j => log[i].ret # log[j].ret

\* C2 witness: both callers are back from nonce(), each with a nonce.
C2_TwoCallersServed ==
    /\ \A c \in {1, 2} :
          call[c].pc = "done" /\ call[c].op = "nonce" /\ call[c].err = Nil
    /\ \E i, j \in Issued : log[i].c = 1 /\ log[j].c = 2

\* C3: at the boundary 4294967294 nonce() returns "" with ErrNonceOverflow
\* and offers the same value again: the counter is unchanged and every
\* later call fails at the same boundary.
C3_OverflowKeepsCounter ==
    /\ \A i \in 1..Len(log) :
          log[i].n = NonceLimit => log[i].ret = "" /\ log[i].err = ErrNonceOverflow
    /\ \A i \in Refused : \A j \in 1..Len(log) :
          i < j => log[j].n = NonceLimit /\ log[j].err = ErrNonceOverflow
    /\ Refused # {} => CounterValues = {NonceLimit}

\* C3 witness: nonce() has failed at the boundary twice in a row.
C3_RefusedTwice ==
    \E i, j \in Refused : i < j /\ log[i].n = NonceLimit /\ log[j].n = NonceLimit

\* The calls that are private, and those that have returned.
PrivateCallers == { c \in Callers : call[c].op \in PrivateOps }

Returned == { c \in Callers : call[c].pc = "done" /\ call[c].op # "nonce" }

\* The returned calls whose response arrived with status 200 and a body
\* that could be read.
Answered200 ==
    { c \in Returned :
        call[c].resp.kind = "http" /\ call[c].resp.status = StatusOK
        /\ ~call[c].resp.readErr }

\* C4: a private call whose nonce generation failed (or whose signing
\* failed) returns an error and never invokes the HTTP transport.  (Stated
\* as claimed; tradeRequest drops the error of nonce() and sends nonce=.)
C4_NoRequestAfterNonceFailure ==
    \A c \in PrivateCallers :
        call[c].rerr # Nil =>
            /\ call[c].sent = <<>>
            /\ call[c].pc = "done" => call[c].err # Nil

\* C5: for every private request handed to the transport, the bytes the
\* HMAC-SHA512 in the Sign header was computed over are the bytes sent as
\* the request body.
C5_SignedBytesAreBody ==
    \A c \in PrivateCallers : \A i \in 1..Len(call[c].sent) :
        LET req == call[c].sent[i]
        IN  /\ req.Sign # NoSign
            /\ req.Sign[2] = ClientSecret
            /\ req.Sign[3] = req.body

\* C5 witness: a Trade request with a nonce in it has been sent.
C5_TradeSent ==
    \E c \in PrivateCallers :
        /\ call[c].op = "Trade" /\ call[c].rerr = Nil
        /\ Len(call[c].sent) = 1 /\ call[c].sent[1].body # ""

\* key=value of every field, escaped, in the order given, joined by "&".
RECURSIVE FormFields(_)
FormFields(fields) ==
    IF fields = <<>> THEN <<>>
    ELSE <<QueryEscape(fields[1].key) \o "=" \o QueryEscape(fields[1].value)>>
         \o FormFields(Tail(fields))

\* The fields of a private call as the operation supplies them: method,
\* nonce, then its parameters.
SuppliedFields(c) ==
    << Param(<<"method">>, Text(call[c].op)), Param(<<"nonce">>, Text(call[c].ret)) >>
    \o TradeParams(call[c].op, call[c].args)

\* The rank of a key among the keys of the client, in byte order.
KeyRank(k) == CHOOSE i \in 1..Len(KeyOrder) : KeyOrder[i] = k

\* fields with field f put before the first field whose key is greater.
RECURSIVE InsertByKey(_, _)
InsertByKey(f, fields) ==
    IF fields = <<>> THEN <<f>>
    ELSE IF KeyRank(f.key) < KeyRank(fields[1].key) THEN <<f>> \o fields
    ELSE <<fields[1]>> \o InsertByKey(f, Tail(fields))

\* fields in ascending order of key (insertion sort).
RECURSIVE ByKey(_)
ByKey(fields) ==
    IF fields = <<>> THEN <<>>
    ELSE InsertByKey(fields[Len(fields)], ByKey(SubSeq(fields, 1, Len(fields) - 1)))

\* C6 as claimed: the body of every private request is the form encoding
\* of method, nonce and the parameters in the order supplied.
C6_BodyInSuppliedOrder ==
    \A c \in PrivateCallers : \A i \in 1..Len(call[c].sent) :
        call[c].sent[i].body = Join(FormFields(SuppliedFields(c)), "&")

\* C6 as amended: the body of every private request is the form encoding
\* of method, nonce and the parameters in ascending byte order of their
\* keys; Trade sends amount, method, nonce, pair, rate, type.
C6_BodySortedByKey ==
    \A c \in PrivateCallers : \A i \in 1..Len(call[c].sent) :
        /\ call[c].sent[i].body = Join(FormFields(ByKey(SuppliedFields(c))), "&")
        /\ call[c].op = "Trade" =>
              [j \in 1..6 |-> ByKey(SuppliedFields(c))[j].key]
                  = << <<"amount">>, <<"method">>, <<"nonce">>, <<"pair">>,
                       <<"rate">>, <<"type">> >>

\* C6 witness: a WithdrawCoin request, whose keys do not sort in the order
\* supplied, has been sent.
C6_WithdrawSent ==
    \E c \in PrivateCallers :
        /\ call[c].op = "WithdrawCoin" /\ Len(call[c].sent) = 1
        /\ ByKey(SuppliedFields(c)) # SuppliedFields(c)

\* C7: for publicRequest and tradeRequest, a response whose status is not
\* 200 yields "server respond with status code <code>" whatever the body
\* holds, and nothing is decoded.
C7_Non200IsStatusError ==
    \A c \in Returned :
        (call[c].resp.kind = "http" /\ call[c].resp.status # StatusOK) =>
            /\ call[c].err = NewError("server respond with status code "
                                      \o FormatInt(call[c].resp.status))
            /\ call[c].resp.status = 500 =>
                  ErrorText(call[c].err) = "server respond with status code 500"
            /\ call[c].result = "zero"

\* C7 witness: a 500 whose body is an envelope with success=1 and a return
\* that would decode has been answered with the status error.
C7_Status500WithGoodBody ==
    \E c \in Returned :
        /\ call[c].resp.kind = "http" /\ call[c].resp.status = 500
        /\ call[c].resp.body.kind = "object"
        /\ call[c].resp.body.success = <<"1">>
        /\ call[c].resp.body.ret = "fits"

\* The success tokens that decode to false; an absent field leaves false.
FalsyTokens ==
    { Absent, <<"0">>, <<"false">>, <<Quote, "0", Quote>>, <<Quote, "false", Quote>> }

\* C8: for both, a 200 response whose envelope has a falsy success and an
\* error message yields "server respond with error: <message>", the
\* message verbatim, and the result is not decoded.
C8_ApplicationErrorVerbatim ==
    \A c \in Answered200 :
        LET body == call[c].resp.body
        IN  (body.kind = "object" /\ body.success \in FalsyTokens
             /\ body.error.kind = "string") =>
                /\ call[c].err = NewError("server respond with error: " \o body.error.text)
                /\ body.error.text = "Invalid method" =>
                      ErrorText(call[c].err) = "server respond with error: Invalid method"
                /\ call[c].result = "zero"

\* C8 witness: success=0 with error "Invalid method" and a return that
\* would decode has been answered.
C8_InvalidMethodAnswered ==
    \E c \in Answered200 :
        /\ call[c].resp.body.kind = "object"
        /\ call[c].resp.body.success = <<"0">>
        /\ call[c].resp.body.error = StringErrorField("Invalid method")
        /\ call[c].resp.body.ret = "fits"

\* C9: every private response whose envelope success is falsy is reported
\* as an error, with or without an error message.  (Stated as claimed;
\* success=0 with a return and no error message returns nil.)
C9_FalsySuccessIsError ==
    \A c \in Answered200 \cap PrivateCallers :
        (call[c].resp.body.kind = "object"
         /\ call[c].resp.body.success \in FalsyTokens \ {Absent}) =>
            call[c].err # Nil

\* A body that does not parse as the envelope: no JSON, no object, a
\* success token the tolerant boolean refuses, or an error that is no string.
NoEnvelope(body) ==
    \/ body.kind \in {"malformed", "array"}
    \/ /\ body.kind = "object"
       /\ \/ body.success \notin BoolTokens \cup {Absent}
          \/ body.error.kind = "number"

\* C10: for both, a 200 response whose body does not parse as the envelope
\* yields an error tagged "unmarshal to base response", never "unmarshal
\* to result"; the latter is reported only after the envelope parsed and
\* no application error was reported.
C10_EnvelopePhaseFirst ==
    \A c \in Answered200 :
        LET body == call[c].resp.body
        IN  /\ NoEnvelope(body) =>
                  /\ Len(call[c].err) = 2
                  /\ call[c].err[1] = "unmarshal to base response"
            /\ body.kind = "malformed" =>
                  ErrorText(call[c].err) =
                      "unmarshal to base response: invalid character '/' looking for beginning of value"
            /\ (call[c].err # Nil /\ call[c].err[1] = "unmarshal to result") =>
                  /\ ~NoEnvelope(body)
                  /\ ~(body.success \in FalsyTokens /\ body.error.kind = "string")

\* C10 witness: a private call answered 200 with the body "/".
C10_MalformedAnswered ==
    \E c \in Answered200 \cap PrivateCallers : call[c].resp.body.kind = "malformed"

\* The last call decoded an array of orderParamsCount number tokens into
\* the Order, without error.
DecodedRateAmount ==
    /\ last.op = "Order.UnmarshalJSON"
    /\ last.err = Nil
    /\ Len(last.input.elems) = orderParamsCount

\* C11: decoding a valid array [rate, amount] into an Order sets Rate to
\* rate, Amount to amount and Total to exactly rate times amount; when
\* amount is zero the Total after the decode is zero.
C11_DecodedTotalIsProduct ==
    DecodedRateAmount =>
        LET rate   == UnmarshalDecimal(last.input.elems[1]).d
            amount == UnmarshalDecimal(last.input.elems[2]).d
        IN  /\ order.Rate = rate
            /\ order.Amount = amount
            /\ DecEqual(order.Total, Mul(rate, amount))
            /\ amount.value = 0 => order.Total.value = 0

\* C12: after CalculateTotal() on an Order in any state, Total equals Rate
\* multiplied by Amount.
C12_TotalIsProductAfterCalculate ==
    last.op = "Order.CalculateTotal" =>
        DecEqual(order.Total, Mul(order.Rate, order.Amount))

\* The last call decoded an object into an empty TradeOrders, without error.
DecodedIntoEmpty ==
    /\ last.op = "TradeOrders.UnmarshalJSON"
    /\ last.before = <<>>
    /\ last.err = Nil
    /\ last.input.kind = "object"

\* The number a key of decimal digits spells, told from the keys decoded.
KeyNumber(key) ==
    CASE key = <<"7">> -> 7
      [] key = <<"0", "7">> -> 7
      [] key = <<"4", "2">> -> 42

\* C13: decoding an object keyed by decimal IDs into an empty TradeOrders
\* yields one record per key; whatever the nested object holds, the
\* record's ID is the number parsed from its key and its other fields are
\* the nested object's.
C13_RecordPerKeyWithKeyID ==
    DecodedIntoEmpty =>
        /\ Len(tradeOrders) = Cardinality(last.input.members)
        /\ \A i \in 1..Len(tradeOrders) :
              LET m == last.visit[i]
              IN  /\ tradeOrders[i].ID = KeyNumber(m.key)
                  /\ tradeOrders[i].Pair = m.value.pair

\* A key that is no unsigned base-10 integer.
NoUint(key) == key = <<>> \/ \E i \in 1..Len(key) : key[i] \notin Digits

\* C14: decoding an object into a TradeOrders fails whenever one of its
\* keys is no unsigned base-10 integer, wherever range visits that key.
C14_BadKeyAlwaysFails ==
    (/\ last.op = "TradeOrders.UnmarshalJSON"
     /\ last.input.kind = "object"
     /\ \E m \in last.input.members : NoUint(m.key))
        => last.err # Nil

\* C14 witness: range visited a key that parses and appended its record,
\* then a key that does not, and the decode failed.
C14_BadKeyVisitedSecond ==
    /\ last.op = "TradeOrders.UnmarshalJSON"
    /\ Len(last.visit) = 2
    /\ ~NoUint(last.visit[1].key)
    /\ NoUint(last.visit[2].key)
    /\ Len(tradeOrders) = Len(last.before) + 1
    /\ last.err # Nil

\* The returned Ticker, Depth and Trades calls whose request succeeded: the
\* response came with status 200 and a body that parsed as the envelope,
\* reported no application error and decoded into the map.
PairCallsDecoded ==
    { c \in Answered200 :
        /\ call[c].op \in PairOps
        /\ call[c].resp.body.kind = "object"
        /\ ~NoEnvelope(call[c].resp.body)
        /\ call[c].resp.body.error.kind # "string"
        /\ call[c].resp.body.whole = "fits" }

\* C15: Ticker, Depth and Trades, when the request succeeds, return a nil
\* error with the zero-valued record if the decoded map lacks the requested
\* pair, and with exactly the pair's value if it has it.
C15_MissingPairIsZeroRecord ==
    \A c \in PairCallsDecoded :
        LET pair == Raw(call[c].args[1])
        IN  /\ call[c].err = Nil
            /\ pair \notin call[c].resp.body.keys => call[c].value = ZeroRecord
            /\ pair \in call[c].resp.body.keys => call[c].value = Record(pair)

\* C15 witness: a Ticker call for btc_usd answered with an object that has
\* eth_usd only returned the zero Market and no error.
C15_OtherPairAnswered ==
    \E c \in PairCallsDecoded :
        /\ call[c].op = "ticker"
        /\ call[c].resp.body.keys = {"eth_usd"}
        /\ call[c].value = ZeroRecord
        /\ call[c].err = Nil

\* C16: every operation hands the transport at most one request per call
\* and never retries: a call that failed in the transport, on the status,
\* on an application error or in decoding sent one request, a call whose
\* request did not build sent none, and no more requests left the client
\* than calls were started.
C16_AtMostOneRequestPerCall ==
    /\ Len(wire) <= started
    /\ \A c \in Callers :
          /\ Len(call[c].sent) <= 1
          /\ (call[c].pc = "done" /\ call[c].resp.kind # "none") =>
                Len(call[c].sent) = 1
          /\ (/\ call[c].pc = "done"
              /\ call[c].op \in PublicOps
              /\ ~ValidURLText(PublicMethod(call[c].op, call[c].args))) =>
                /\ call[c].sent = <<>>
                /\ call[c].err # Nil

\* C16 witness: a private call returned the transport's error after one
\* request, and a later public call returned a decode error after one.
C16_FailedAfterOneRequest ==
    /\ Len(wire) = 2
    /\ wire[1].nonce # ""
    /\ \E c \in Returned :
          /\ call[c].op \in PublicOps
          /\ Len(call[c].sent) = 1
          /\ call[c].err # Nil
          /\ call[c].err[1] = "unmarshal to result"

\* C17: when the counter holds a value other than 4294967294, nonce()
\* returns its decimal string with a nil error and leaves the counter one
\* higher, so successive calls return consecutive integers from the seed on
\* (the seed 1 returns "1").
C17_ConsecutiveFromSeed ==
    \A i \in 1..Len(log) :
        log[i].n # NonceLimit =>
            /\ log[i].err = Nil
            /\ log[i].ret = FormatUint(log[i].n)
            /\ log[i].n = U32(0, 1) => log[i].ret = "1"
            /\ i < Len(log) =>
                  /\ log[i + 1].n = Inc32(log[i].n)
                  /\ Less32(log[i].n, log[i + 1].n)

\* The calling goroutines that have received the counter and not yet
\* spawned the goroutine that offers it again.
Holders == { c \in Callers : call[c].pc = "got" }

\* C19: in every state the counter has one owner: one goroutine offering
\* it on noncePool, or one caller of nonce() that has received it and not
\* yet spawned the goroutine that offers it again; never two offering.
C19_OneOwnerOfCounter ==
    /\ Len(senders) + Cardinality(Holders) = 1
    /\ Len(senders) <= 1

\* C19 witness: one caller holds the counter, nobody offers it, and
\* another caller waits to receive.
C19_HeldWhileAnotherWaits ==
    /\ senders = <<>>
    /\ \E c, d \in Callers : call[c].pc = "got" /\ call[d].pc = "recv"

\* The requests on the wire whose call obtained a nonce, and for each the
\* return of nonce() it came from.
NoncedSent == { j \in 1..Len(wire) : wire[j].nonce # "" }

LogOf(j) ==
    CHOOSE i \in Issued : log[i].c = wire[j].c /\ log[i].ret = wire[j].nonce

\* C20 as stated: of two private calls on one Client, the one that
\* obtained the smaller nonce (and obtained it first) hands its request to
\* the transport before the other.
C20_SentInNonceOrder ==
    \A j, k \in NoncedSent :
        (LogOf(j) < LogOf(k) /\ Less32(log[LogOf(j)].n, log[LogOf(k)].n)) => j < k

\* C20 amended: each request of a call that obtained a nonce carries the
\* nonce that call obtained, and no two of them carry the same one; their
\* order on the wire is not that of their nonces.
C20_EachRequestOwnNonce ==
    /\ \A j \in NoncedSent :
          \E i \in Issued : log[i].c = wire[j].c /\ log[i].ret = wire[j].nonce
    /\ \A j, k \in NoncedSent : j # k => wire[j].nonce # wire[k].nonce

\* C20 witness: two callers' requests are on the wire, the one with the
\* larger nonce first.
C20_LargerNonceSentFirst ==
    \E j, k \in NoncedSent :
        /\ j < k
        /\ wire[j].c # wire[k].c
        /\ LogOf(k) < LogOf(j)
        /\ Less32(log[LogOf(k)].n, log[LogOf(j)].n)

\* The tokens the tolerant boolean is to read as true, and as false.
TrueTokens ==
    { <<"1">>, <<"true">>, <<Quote, "1", Quote>>, <<Quote, "true", Quote>> }

FalseTokens ==
    { <<"0">>, <<"false">>, <<Quote, "0", Quote>>, <<Quote, "false", Quote>> }

\* C18: the tolerant boolean decodes 1, true, "1" and "true" to true and
\* 0, false, "0" and "false" to false; any other token is a decode error.
C18_TolerantBooleanTokens ==
    last.op = "convertibleBool.UnmarshalJSON" =>
        LET field == last.visit[1]
        IN  /\ last.input \in TrueTokens => (last.err = Nil /\ bools[field])
            /\ last.input \in FalseTokens => (last.err = Nil /\ ~bools[field])
            /\ last.input \notin TrueTokens \cup FalseTokens =>
                  (last.err # Nil /\ bools[field] = last.before)

\* C18 witness: a field that was false decoded the token "true", quoted.
C18_QuotedTrueDecoded ==
    /\ last.op = "convertibleBool.UnmarshalJSON"
    /\ last.input = <<Quote, "true", Quote>>
    /\ last.before = FALSE
    /\ bools[last.visit[1]] = TRUE

\* C21: under fair scheduling every call of nonce() that waits to receive
\* the counter returns, with a value or with ErrNonceOverflow, whatever the
\* other callers do and also once the counter stands at the limit.
C21_NonceEventuallyReturns ==
    \A c \in Callers :
        (call[c].pc = "recv") ~> (call[c].pc \in {"send", "done"})

\* C21 witness: nonce() refused one caller at the limit and then returned to
\* another caller.
C21_ReturnedAfterRefusal ==
    /\ Len(log) >= 2
    /\ log[1].err = ErrNonceOverflow
    /\ log[2].c # log[1].c

\* C22: when OrderInfo(orderID) succeeds and the decoded map has the key of
\* orderID, the TradeOrder returned has ID orderID and the other fields of
\* that entry.
C22_OrderInfoHasRequestedID ==
    \A c \in Returned :
        (/\ call[c].op = "OrderInfo"
         /\ call[c].err = Nil
         /\ call[c].result = "decoded"
         /\ FormatInt(call[c].args[1]) \in call[c].resp.body.keys) =>
            /\ call[c].value.ID = call[c].args[1]
            /\ call[c].value.Pair = OrderEntry.pair

====
